---- MODULE Spec2Model ----
(***************************************************************************)
(* State-machine model of the stylestash backend (src/server.js).          *)
(*                                                                         *)
(* The server is one Node process: every handler runs synchronously up to  *)
(* its next `await`, so one action of the model is one such synchronous    *)
(* segment of one request.  Requests live in client slots; a slot issues   *)
(* one request at a time, reads the response and keeps the last token it   *)
(* was given.  The MongoDB collections (users, items), the Cloudinary      *)
(* uploads and the wall clock are the shared state.                        *)
(***************************************************************************)
EXTENDS Integers, Sequences, FiniteSets, TLC

\* ------------------------------------------------------------------ bounds
NSlots == 2
MaxUploads == 2
MaxTicks == 2

\* ------------------------------------------------------- program constants
\* expiresIn: "30d" of jwt.sign, in days (the clock of the model counts days)
ExpiresIn == 30

Slots == 1 .. NSlots

Absent == "absent"
Emails == {"a@x", "b@x"}
Passwords == {"pw1", "pw2"}
Salts == {"s1"}
ServerSecret == "JWT_SECRET"

\* JSON bodies of POST /api/auth/register: a field is a value, absent or ""
RegisterBodies ==
    {[firstName |-> "Ann", lastName |-> "Lee", email |-> "a@x", password |-> "pw1"],
     [firstName |-> "Ann", lastName |-> "Lee", email |-> "b@x", password |-> "pw2"]}
    \cup {[firstName |-> Absent, lastName |-> "Lee", email |-> "a@x", password |-> "pw1"],
          [firstName |-> "Ann", lastName |-> "", email |-> "a@x", password |-> "pw1"],
          [firstName |-> "Ann", lastName |-> "Lee", email |-> Absent, password |-> "pw1"],
          [firstName |-> "Ann", lastName |-> "Lee", email |-> "b@x", password |-> Absent]}

\* JSON bodies of POST /api/auth/login
LoginBodies == [email : {Absent} \cup Emails, password : {Absent} \cup Passwords]

\* multipart bodies of POST /api/items: the image part (its format, or absent)
\* and the text fields
GoodItem == [file |-> "jpg", seasons |-> "[\"summer\",\"fall\"]", name |-> "Shirt",
             warmth |-> "5", isClean |-> Absent]
ItemBodies ==
    {GoodItem,
     [GoodItem EXCEPT !.seasons = Absent, !.isClean = "false"],
     [GoodItem EXCEPT !.file = Absent],
     [GoodItem EXCEPT !.file = "gif"],
     [GoodItem EXCEPT !.seasons = "summer,fall"],
     [GoodItem EXCEPT !.warmth = "11"],
     [GoodItem EXCEPT !.name = Absent]}

\* -------------------------------------------------------------- sentinels
NoToken == [id |-> 0, iat |-> 0, exp |-> 0, sig |-> "none"]
NoHash == [alg |-> "none", salt |-> "", of |-> ""]
NoUser == [id |-> 0, firstName |-> "", lastName |-> "", email |-> "", password |-> NoHash]

NoReq == [route |-> "none", token |-> NoToken, at |-> 0,
          firstName |-> Absent, lastName |-> Absent, email |-> Absent,
          password |-> Absent, file |-> Absent, seasons |-> Absent,
          name |-> Absent, warmth |-> Absent, isClean |-> Absent]

NoLoc == [user |-> NoUser, salt |-> "", claim |-> NoToken, file |-> 0, total |-> 0, mark |-> 0]

NoResp == [status |-> 0, by |-> "none", msg |-> "", token |-> NoToken,
           items |-> <<>>, name |-> "",
           totalItems |-> 0, dirtyItems |-> 0, isNewUser |-> FALSE, mark |-> 0]

VARIABLES
    users,      \* the User collection: a set of user documents
    items,      \* the Item collection, in insertion (natural) order
    uploads,    \* media host: reference -> header token of the uploading request
    clock,      \* wall clock, in days
    ticks,      \* number of clock advances so far (bounded by MaxTicks)
    secret,     \* process.env.JWT_SECRET
    pc,         \* per slot: the await point the request is suspended at
    req,        \* per slot: the request (route, header token, body)
    loc,        \* per slot: the handler's local variables
    resp,       \* per slot: the response sent, status 0 while none
    saved,      \* per slot: the token the client keeps
    acc,        \* per slot: backends the request has touched
    escaped     \* per slot: a rejection left the handler uncaught

vars == <<users, items, uploads, clock, ticks, secret, pc, req, loc, resp, saved, acc, escaped>>

\* ------------------------------------------------------------ pure helpers

\* JavaScript `!x` on a body field: undefined and "" are falsy
Falsy(x) == x = Absent \/ x = ""

\* bcrypt.hash(password, salt): the digest is bound to the salt and the plaintext
Hash(p, s) == [alg |-> "bcrypt", salt |-> s, of |-> p]

\* bcrypt.compare(password, hash): re-hash with the salt kept in the hash
Compare(p, h) == Hash(p, h.salt) = h

\* jwt.sign({ id }, JWT_SECRET, { expiresIn: "30d" })
Sign(id) == [id |-> id, iat |-> clock, exp |-> clock + ExpiresIn, sig |-> secret]

\* a verify that still accepts the token at its expiration instant
Verify_InclusiveExpiry(tok) == tok.sig = secret /\ ~(clock > tok.exp)

\* jwt.verify(token, JWT_SECRET): signature, then `clockTimestamp >= payload.exp` is expired
Verify(tok) == tok.sig = secret /\ ~(clock >= tok.exp)

\* a gate that decodes the token without checking its signature
AuthGate_DecodeOnly(tok) ==
    IF tok = NoToken THEN "noToken"
    ELSE IF ~(clock >= tok.exp) THEN "ok"
    ELSE "invalid"

\* the auth middleware
AuthGate(tok) ==
    IF tok = NoToken THEN "noToken"
    ELSE IF Verify(tok) THEN "ok"
    ELSE "invalid"

\* JSON.parse(seasons)
ParseSeasons(s) ==
    IF s = "[\"summer\",\"fall\"]" THEN [ok |-> TRUE, val |-> <<"summer", "fall">>]
    ELSE [ok |-> FALSE, val |-> <<>>]

\* Number(warmth) on the decimal strings of WarmthInputs
ToNumber(w) == IF w = "5" THEN 5 ELSE IF w = "11" THEN 11 ELSE 0

\* a schema without the bounds on warmth
ValidItem_NoRange(it) ==
    /\ it.userId # 0
    /\ ~Falsy(it.name)
    /\ it.imageUrl # 0
    /\ ~Falsy(it.category)

\* ItemSchema validation run by item.save()
ValidItem(it) ==
    /\ it.userId # 0
    /\ ~Falsy(it.name)
    /\ it.imageUrl # 0
    /\ ~Falsy(it.category)
    /\ it.warmth >= 1 /\ it.warmth <= 10

\* queries that forget a filter
ItemsOf_NoFilter(uid) == items
DirtyItemsOf_NoFlag(uid) == SelectSeq(items, LAMBDA it : it.userId = uid)

\* Item.find({ userId }) / Item.countDocuments({ userId })
ItemsOf(uid) == SelectSeq(items, LAMBDA it : it.userId = uid)
DirtyItemsOf(uid) == SelectSeq(items, LAMBDA it : it.userId = uid /\ it.isClean = FALSE)

\* User.findOne({ email }): an absent email matches no document
FindByEmail(e) ==
    IF \E u \in users : u.email = e
    THEN CHOOSE u \in users : u.email = e
    ELSE NoUser

\* User.findById(id)
FindById(id) ==
    IF \E u \in users : u.id = id
    THEN CHOOSE u \in users : u.id = id
    ELSE NoUser

\* a new ObjectId: distinct from every id stored or held by a request in flight
UsedIds == {u.id : u \in users} \cup {loc[s].user.id : s \in Slots}
FreshId == CHOOSE i \in 1 .. (Cardinality(UsedIds) + 1) : i \notin UsedIds

\* ------------------------------------------------------------- responses
Reply(status, msg) == [NoResp EXCEPT !.status = status, !.by = "handler", !.msg = msg]
ReplyToken(tok) == [NoResp EXCEPT !.status = 200, !.by = "handler", !.token = tok]
\* Express' default error handler answers an error passed to next(err)
ReplyExpress == [NoResp EXCEPT !.status = 500, !.by = "express", !.msg = "Internal Server Error"]

\* ---------------------------------------------------------------- clients
Free(r) == pc[r] \in {"idle", "done", "hung"}

\* the client keeps the token of the last response that carried one
Kept(r) == IF resp[r].token # NoToken THEN resp[r].token ELSE saved[r]

\* what a client can put in x-auth-token: nothing, a token some client was
\* given (a user may be logged in on several clients), or a token signed with
\* some other key for an existing user id, not expiring within the time the
\* model covers
Forged(uid) == [id |-> uid, iat |-> 0, exp |-> ExpiresIn * (MaxTicks + 1), sig |-> "forged"]
TokenInputs(r) == {NoToken} \cup {Kept(s) : s \in Slots} \cup {Forged(u.id) : u \in users}

\* a new request in slot r
Open(r, q) ==
    /\ Free(r)
    /\ req' = [req EXCEPT ![r] = q]
    /\ saved' = [saved EXCEPT ![r] = Kept(r)]
    /\ acc' = [acc EXCEPT ![r] = {}]
    /\ escaped' = [escaped EXCEPT ![r] = FALSE]

\* the request ends with response x
Finish(r, x) ==
    /\ pc' = [pc EXCEPT ![r] = "done"]
    /\ resp' = [resp EXCEPT ![r] = x]

\* the request suspends at await point p
Await(r, p) ==
    /\ pc' = [pc EXCEPT ![r] = p]
    /\ resp' = [resp EXCEPT ![r] = NoResp]

Touch(r, what) == acc' = [acc EXCEPT ![r] = acc[r] \cup {what}]

Init ==
    /\ users = {}
    /\ items = <<>>
    /\ uploads = <<>>
    /\ clock = 0
    /\ ticks = 0
    /\ secret = ServerSecret
    /\ pc = [r \in Slots |-> "idle"]
    /\ req = [r \in Slots |-> NoReq]
    /\ loc = [r \in Slots |-> NoLoc]
    /\ resp = [r \in Slots |-> NoResp]
    /\ saved = [r \in Slots |-> NoToken]
    /\ acc = [r \in Slots |-> {}]
    /\ escaped = [r \in Slots |-> FALSE]

\* the store after Ann (a@x) and Bob (b@x) have registered at day 0, each
\* client holding the token its registration returned
SeedUser(i) ==
    [id |-> i, firstName |-> "Ann", lastName |-> "Lee",
     email |-> IF i = 1 THEN "a@x" ELSE "b@x",
     password |-> Hash("pw1", "s1")]
SeedUsers == {SeedUser(1), SeedUser(2)}
SeedToken(i) == [id |-> i, iat |-> 0, exp |-> ExpiresIn, sig |-> ServerSecret]

InitSeeded ==
    /\ users = SeedUsers
    /\ items = <<>>
    /\ uploads = <<>>
    /\ clock = 0
    /\ ticks = 0
    /\ secret = ServerSecret
    /\ pc = [r \in Slots |-> "idle"]
    /\ req = [r \in Slots |-> NoReq]
    /\ loc = [r \in Slots |-> NoLoc]
    /\ resp = [r \in Slots |-> NoResp]
    /\ saved = [r \in Slots |-> SeedToken(IF r % 2 = 1 THEN 1 ELSE 2)]
    /\ acc = [r \in Slots |-> {}]
    /\ escaped = [r \in Slots |-> FALSE]

\* ------------------------------------------------ POST /api/auth/register
\* the validation as it was before the name was split: only email and password
RegisterBegin_NamesUnchecked(r) ==
    \E b \in RegisterBodies :
        /\ Open(r, [NoReq EXCEPT !.route = "register", !.firstName = b.firstName,
                                 !.lastName = b.lastName, !.email = b.email,
                                 !.password = b.password])
        /\ loc' = [loc EXCEPT ![r] = NoLoc]
        /\ IF Falsy(b.email) \/ Falsy(b.password)
           THEN Finish(r, Reply(400, "Please enter all fields"))
           ELSE Await(r, "reg_findOne")
        /\ UNCHANGED <<users, items, uploads, clock, ticks, secret>>

RegisterBegin(r) ==
    \E b \in RegisterBodies :
        /\ Open(r, [NoReq EXCEPT !.route = "register", !.firstName = b.firstName,
                                 !.lastName = b.lastName, !.email = b.email,
                                 !.password = b.password])
        /\ loc' = [loc EXCEPT ![r] = NoLoc]
        /\ IF Falsy(b.firstName) \/ Falsy(b.lastName) \/ Falsy(b.email) \/ Falsy(b.password)
           THEN Finish(r, Reply(400, "Please enter all fields"))
           ELSE Await(r, "reg_findOne")
        /\ UNCHANGED <<users, items, uploads, clock, ticks, secret>>

RegisterFindOne(r) ==
    /\ pc[r] = "reg_findOne"
    /\ Touch(r, "users")
    /\ IF FindByEmail(req[r].email) # NoUser
       THEN Finish(r, Reply(400, "User already exists"))
       ELSE Await(r, "reg_genSalt")
    /\ UNCHANGED <<users, items, uploads, clock, ticks, secret, req, loc, saved, escaped>>

RegisterGenSalt(r) ==
    /\ pc[r] = "reg_genSalt"
    /\ \E s \in Salts : loc' = [loc EXCEPT ![r].salt = s]
    /\ Await(r, "reg_hash")
    /\ UNCHANGED <<users, items, uploads, clock, ticks, secret, req, saved, acc, escaped>>

\* bcrypt.hash resolves, then `new User({...})` and the call of user.save()
RegisterHash(r) ==
    /\ pc[r] = "reg_hash"
    /\ loc' = [loc EXCEPT ![r].user =
                  [id |-> FreshId, firstName |-> req[r].firstName,
                   lastName |-> req[r].lastName, email |-> req[r].email,
                   password |-> Hash(req[r].password, loc[r].salt)]]
    /\ Await(r, "reg_save")
    /\ UNCHANGED <<users, items, uploads, clock, ticks, secret, req, saved, acc, escaped>>

\* the insert as the store runs it: the unique index on email rejects a second
\* document with the same email (E11000), which the handler's catch turns into 500
InsertUser(doc) ==
    IF \E u \in users : u.email = doc.email
    THEN [ok |-> FALSE, users |-> users]
    ELSE [ok |-> TRUE, users |-> users \cup {doc}]

RegisterSave(r) ==
    /\ pc[r] = "reg_save"
    /\ Touch(r, "users")
    /\ LET ins == InsertUser(loc[r].user) IN
          /\ users' = ins.users
          /\ IF ins.ok
             THEN Finish(r, ReplyToken(Sign(loc[r].user.id)))
             ELSE Finish(r, Reply(500, "E11000 duplicate key error"))
    /\ UNCHANGED <<items, uploads, clock, ticks, secret, req, loc, saved, escaped>>

\* --------------------------------------------------- POST /api/auth/login
LoginBegin(r) ==
    \E b \in LoginBodies :
        /\ Open(r, [NoReq EXCEPT !.route = "login", !.email = b.email, !.password = b.password])
        /\ loc' = [loc EXCEPT ![r] = NoLoc]
        /\ Await(r, "login_findOne")
        /\ UNCHANGED <<users, items, uploads, clock, ticks, secret>>

LoginFindOne(r) ==
    /\ pc[r] = "login_findOne"
    /\ Touch(r, "users")
    /\ LET user == FindByEmail(req[r].email) IN
          IF user = NoUser
          THEN /\ Finish(r, Reply(400, "User does not exist"))
               /\ loc' = loc
          ELSE /\ Await(r, "login_compare")
               /\ loc' = [loc EXCEPT ![r].user = user]
    /\ UNCHANGED <<users, items, uploads, clock, ticks, secret, req, saved, escaped>>

\* a login that re-hashes the stored password with a new salt on success
LoginCompare_Rehash(r) ==
    /\ pc[r] = "login_compare"
    /\ IF req[r].password = Absent
       THEN Finish(r, Reply(500, "Illegal arguments")) /\ users' = users
       ELSE IF ~Compare(req[r].password, loc[r].user.password)
       THEN Finish(r, Reply(400, "Invalid credentials")) /\ users' = users
       ELSE /\ Finish(r, ReplyToken(Sign(loc[r].user.id)))
            /\ users' = {IF u.id = loc[r].user.id
                         THEN [u EXCEPT !.password = Hash(req[r].password, "s2")]
                         ELSE u : u \in users}
    /\ UNCHANGED <<items, uploads, clock, ticks, secret, req, loc, saved, acc, escaped>>

\* bcrypt.compare rejects a password that is not a string ("Illegal arguments")
LoginCompare(r) ==
    /\ pc[r] = "login_compare"
    /\ IF req[r].password = Absent
       THEN Finish(r, Reply(500, "Illegal arguments"))
       ELSE IF ~Compare(req[r].password, loc[r].user.password)
       THEN Finish(r, Reply(400, "Invalid credentials"))
       ELSE Finish(r, ReplyToken(Sign(loc[r].user.id)))
    /\ UNCHANGED <<users, items, uploads, clock, ticks, secret, req, loc, saved, acc, escaped>>

\* ------------------------------------------------------- protected routes
\* `auth` runs first on every protected route: 401 without a token, 400 when
\* verify throws, otherwise req.user = decoded and next()
Gate(r, tok, p) ==
    /\ loc' = [loc EXCEPT ![r] = [NoLoc EXCEPT !.claim = IF AuthGate(tok) = "ok" THEN tok ELSE NoToken]]
    /\ IF AuthGate(tok) = "noToken"
       THEN Finish(r, Reply(401, "No token, authorization denied"))
       ELSE IF AuthGate(tok) = "invalid"
       THEN Finish(r, Reply(400, "Token is not valid"))
       ELSE Await(r, p)

\* ----------------------------------------------- GET /api/dashboard/stats
StatsBegin(r) ==
    \E tok \in TokenInputs(r) :
        /\ Open(r, [NoReq EXCEPT !.route = "stats", !.token = tok, !.at = clock])
        /\ Gate(r, tok, "stats_findById")
        /\ UNCHANGED <<users, items, uploads, clock, ticks, secret>>

StatsFindById(r) ==
    /\ pc[r] = "stats_findById"
    /\ Touch(r, "users")
    /\ loc' = [loc EXCEPT ![r].user = FindById(loc[r].claim.id)]
    /\ Await(r, "stats_countTotal")
    /\ UNCHANGED <<users, items, uploads, clock, ticks, secret, req, saved, escaped>>

StatsCountTotal(r) ==
    /\ pc[r] = "stats_countTotal"
    /\ Touch(r, "items")
    /\ loc' = [loc EXCEPT ![r].total = Len(ItemsOf(loc[r].claim.id)),
                          ![r].mark = Len(items)]
    /\ Await(r, "stats_countDirty")
    /\ UNCHANGED <<users, items, uploads, clock, ticks, secret, req, saved, escaped>>

\* the second count resolves and the handler builds the response; a null user
\* makes `user.firstName` throw, which the catch answers with 500
StatsCountDirty(r) ==
    /\ pc[r] = "stats_countDirty"
    /\ Touch(r, "items")
    /\ LET dirtyItems == Len(DirtyItemsOf(loc[r].claim.id))
           totalItems == loc[r].total
       IN IF loc[r].user = NoUser
          THEN Finish(r, Reply(500, "Server Error"))
          ELSE Finish(r, [NoResp EXCEPT !.status = 200, !.by = "handler",
                              !.name = <<loc[r].user.firstName, " ", loc[r].user.lastName>>,
                              !.totalItems = totalItems,
                              !.dirtyItems = dirtyItems,
                              !.isNewUser = (totalItems = 0),
                              !.mark = loc[r].mark])
    /\ UNCHANGED <<users, items, uploads, clock, ticks, secret, req, loc, saved, escaped>>

\* --------------------------------------------------------- POST /api/items
InFlightUploads == Cardinality({s \in Slots : pc[s] = "item_upload" /\ req[s].file = "jpg"})

ItemCreateBegin(r) ==
    \E tok \in TokenInputs(r), b \in ItemBodies :
        /\ b.file = "jpg" => Len(uploads) + InFlightUploads < MaxUploads
        /\ Open(r, [NoReq EXCEPT !.route = "item_create", !.token = tok, !.at = clock, !.file = b.file,
                                 !.seasons = b.seasons, !.name = b.name,
                                 !.warmth = b.warmth, !.isClean = b.isClean])
        /\ Gate(r, tok, "item_upload")
        /\ UNCHANGED <<users, items, uploads, clock, ticks, secret>>

\* a document built by spreading req.body, which lets the client set isClean
BuildItem_MassAssign(r) ==
    [userId |-> loc[r].claim.id,
     name |-> req[r].name,
     imageUrl |-> loc[r].file,
     category |-> "Tops",
     seasons |-> IF Falsy(req[r].seasons) THEN <<>> ELSE ParseSeasons(req[r].seasons).val,
     warmth |-> ToNumber(req[r].warmth),
     isClean |-> (req[r].isClean # "false")]

\* the document `new Item({...})` builds from req.user, req.body and req.file
BuildItem(r) ==
    [userId |-> loc[r].claim.id,
     name |-> req[r].name,
     imageUrl |-> loc[r].file,
     category |-> "Tops",
     seasons |-> IF Falsy(req[r].seasons) THEN <<>> ELSE ParseSeasons(req[r].seasons).val,
     warmth |-> ToNumber(req[r].warmth),
     isClean |-> TRUE]

\* upload.single("image") completes and, on success, the handler runs up to
\* `await item.save()`:
\*   no image part: req.file is undefined and `req.file.path` throws (500);
\*   format outside allowed_formats: the storage engine fails, multer calls
\*     next(err) and Express answers 500;
\*   otherwise the file is stored and JSON.parse(seasons) may throw (500).
ItemUpload(r) ==
    /\ pc[r] = "item_upload"
    /\ IF req[r].file = Absent
       THEN /\ Finish(r, Reply(500, "Cannot read properties of undefined"))
            /\ UNCHANGED <<uploads, loc, acc>>
       ELSE IF req[r].file # "jpg"
       THEN /\ Finish(r, ReplyExpress)
            /\ Touch(r, "media")
            /\ UNCHANGED <<uploads, loc>>
       ELSE /\ uploads' = Append(uploads, [by |-> req[r].token])
            /\ loc' = [loc EXCEPT ![r].file = Len(uploads) + 1]
            /\ Touch(r, "media")
            /\ IF ~Falsy(req[r].seasons) /\ ~ParseSeasons(req[r].seasons).ok
               THEN Finish(r, Reply(500, "Unexpected token in JSON"))
               ELSE Await(r, "item_save")
    /\ UNCHANGED <<users, items, clock, ticks, secret, req, saved, escaped>>

\* item.save(): schema validation, then the insert
ItemSave(r) ==
    /\ pc[r] = "item_save"
    /\ Touch(r, "items")
    /\ IF ValidItem(BuildItem(r))
       THEN /\ items' = Append(items, BuildItem(r))
            /\ Finish(r, [NoResp EXCEPT !.status = 200, !.by = "handler", !.items = <<BuildItem(r)>>])
       ELSE /\ items' = items
            /\ Finish(r, Reply(500, "Item validation failed"))
    /\ UNCHANGED <<users, uploads, clock, ticks, secret, req, loc, saved, escaped>>

\* ---------------------------------------------------------- GET /api/items
ItemListBegin(r) ==
    \E tok \in TokenInputs(r) :
        /\ Open(r, [NoReq EXCEPT !.route = "item_list", !.token = tok, !.at = clock])
        /\ Gate(r, tok, "list_find")
        /\ UNCHANGED <<users, items, uploads, clock, ticks, secret>>

ItemListFind(r) ==
    /\ pc[r] = "list_find"
    /\ Touch(r, "items")
    /\ Finish(r, [NoResp EXCEPT !.status = 200, !.by = "handler",
                      !.items = ItemsOf(loc[r].claim.id), !.mark = Len(items)])
    /\ UNCHANGED <<users, items, uploads, clock, ticks, secret, req, loc, saved, escaped>>

\* ------------------------------------------------------------- wall clock
TickSteps == {1, ExpiresIn - 1}

Tick ==
    /\ ticks < MaxTicks
    /\ \E d \in TickSteps : clock' = clock + d
    /\ ticks' = ticks + 1
    /\ UNCHANGED <<users, items, uploads, secret, pc, req, loc, resp, saved, acc, escaped>>

\* ----------------------------------------------------------- store failures
\* an awaited store operation rejects (connection lost, timeout, ...)
CaughtAwaits == {"reg_findOne", "reg_save", "login_findOne", "stats_findById",
                 "stats_countTotal", "stats_countDirty", "item_save"}

\* register, login, stats and item create await inside try/catch
StoreFault(r) ==
    /\ pc[r] \in CaughtAwaits
    /\ Finish(r, Reply(500, IF req[r].route = "stats" THEN "Server Error" ELSE "store error"))
    /\ UNCHANGED <<users, items, uploads, clock, ticks, secret, req, loc, saved, acc, escaped>>

\* GET /api/items awaits Item.find outside any try/catch: the rejection leaves
\* the handler.  Express 4 ignores the returned promise and no response is
\* ever sent; Express 5 passes the rejection to its default error handler.
ListFault(r) ==
    /\ pc[r] = "list_find"
    /\ escaped' = [escaped EXCEPT ![r] = TRUE]
    /\ \E express5 \in BOOLEAN :
          IF express5
          THEN Finish(r, ReplyExpress)
          ELSE /\ pc' = [pc EXCEPT ![r] = "hung"]
               /\ resp' = resp
    /\ UNCHANGED <<users, items, uploads, clock, ticks, secret, req, loc, saved, acc>>

\* the media host fails an upload of an allowed format: multer calls next(err)
UploadFault(r) ==
    /\ pc[r] = "item_upload"
    /\ req[r].file = "jpg"
    /\ Touch(r, "media")
    /\ Finish(r, ReplyExpress)
    /\ UNCHANGED <<users, items, uploads, clock, ticks, secret, req, loc, saved, escaped>>

\* --------------------------------------------------------- specifications
AuthRoutes ==
    \/ \E r \in Slots : RegisterBegin(r)
    \/ \E r \in Slots : RegisterFindOne(r)
    \/ \E r \in Slots : RegisterGenSalt(r)
    \/ \E r \in Slots : RegisterHash(r)
    \/ \E r \in Slots : RegisterSave(r)
    \/ \E r \in Slots : LoginBegin(r)
    \/ \E r \in Slots : LoginFindOne(r)
    \/ \E r \in Slots : LoginCompare(r)

ProtectedRoutes ==
    \/ \E r \in Slots : StatsBegin(r)
    \/ \E r \in Slots : StatsFindById(r)
    \/ \E r \in Slots : StatsCountTotal(r)
    \/ \E r \in Slots : StatsCountDirty(r)
    \/ \E r \in Slots : ItemCreateBegin(r)
    \/ \E r \in Slots : ItemUpload(r)
    \/ \E r \in Slots : ItemSave(r)
    \/ \E r \in Slots : ItemListBegin(r)
    \/ \E r \in Slots : ItemListFind(r)

Faults ==
    \/ \E r \in Slots : StoreFault(r)
    \/ \E r \in Slots : ListFault(r)
    \/ \E r \in Slots : UploadFault(r)

\* the whole server: every route, every failure and the clock
Next == AuthRoutes \/ ProtectedRoutes \/ Faults \/ Tick
Spec == Init /\ [][Next]_vars

\* the authentication routes over an empty store
NextAuth == AuthRoutes
SpecAuth == Init /\ [][NextAuth]_vars

\* the protected routes over a store in which SeedUsers have registered
NextItems == ProtectedRoutes
SpecItems == InitSeeded /\ [][NextItems]_vars

\* the protected routes while store and media operations may fail
NextFault == ProtectedRoutes \/ Faults
SpecFault == InitSeeded /\ [][NextFault]_vars

\* registration tokens at the auth gate while time passes
NextClock ==
    \/ \E r \in Slots : RegisterBegin(r)
    \/ \E r \in Slots : RegisterFindOne(r)
    \/ \E r \in Slots : RegisterGenSalt(r)
    \/ \E r \in Slots : RegisterHash(r)
    \/ \E r \in Slots : RegisterSave(r)
    \/ \E r \in Slots : ItemListBegin(r)
    \/ \E r \in Slots : ItemListFind(r)
    \/ Tick
SpecClock == Init /\ [][NextClock]_vars

\* ================================================================= claims
Done(r, route) == pc[r] = "done" /\ req[r].route = route
HasToken(r) == resp[r].token # NoToken
AllFieldsPresent(r) ==
    /\ ~Falsy(req[r].firstName) /\ ~Falsy(req[r].lastName)
    /\ ~Falsy(req[r].email) /\ ~Falsy(req[r].password)

\* C1: of two POST /api/auth/register requests with the same email and all
\* four fields, sequential or interleaved, exactly one is answered with a token
\* and the other with 400 'User already exists'; the user store never holds two
\* records with one email.
C1_DuplicateRegister ==
    /\ \A u1, u2 \in users : u1.email = u2.email => u1 = u2
    /\ \A r \in Slots :
          Done(r, "register") /\ AllFieldsPresent(r) =>
              \/ HasToken(r)
              \/ resp[r].status = 400 /\ resp[r].msg = "User already exists"
    /\ \A r, s \in Slots :
          /\ r # s /\ Done(r, "register") /\ Done(s, "register")
          /\ req[r].email = req[s].email
          => ~(HasToken(r) /\ HasToken(s))

\* C5: a register request with firstName, lastName, email or password absent
\* or empty is answered 400 'Please enter all fields' without a token and
\* without having read or written the user store.
C5_MissingFieldRejected ==
    \A r \in Slots :
        req[r].route = "register" /\ ~AllFieldsPresent(r) =>
            /\ pc[r] = "done"
            /\ resp[r].status = 400
            /\ resp[r].msg = "Please enter all fields"
            /\ ~HasToken(r)
            /\ acc[r] = {}
            /\ \A u \in users : u.firstName # Absent /\ u.lastName # ""
                                /\ u.email # Absent /\ u.password.of # Absent

C5_Witness ==
    \E r \in Slots :
        /\ Done(r, "register") /\ req[r].lastName = "" /\ resp[r].status = 400
        /\ users # {}

\* the outcomes of a finished login, against the record findOne returned
C6_Outcomes ==
    \A r \in Slots :
        Done(r, "login") =>
            /\ loc[r].user # NoUser =>
                  loc[r].user \in users /\ loc[r].user.email = req[r].email
            /\ (loc[r].user # NoUser /\ req[r].password # Absent
                /\ loc[r].user.password.of # req[r].password) =>
                  /\ resp[r].status = 400
                  /\ resp[r].msg = "Invalid credentials"
                  /\ ~HasToken(r)
            /\ (\A u \in users : u.email # req[r].email) =>
                  /\ resp[r].status = 400
                  /\ resp[r].msg = "User does not exist"
                  /\ ~HasToken(r)
            /\ HasToken(r) =>
                  /\ resp[r].token.id = loc[r].user.id
                  /\ loc[r].user.password.of = req[r].password

LoginStep == \E r \in Slots : LoginBegin(r) \/ LoginFindOne(r) \/ LoginCompare(r)

\* C6: login with an existing user's email and a password other than the one
\* hashed in the record is answered 400 'Invalid credentials' without a token;
\* with an email that has no record, 400 'User does not exist'; a successful
\* login returns a token for the record found; and no step of login changes the
\* user store or the item store.
C6_LoginFrame ==
    /\ []C6_Outcomes
    /\ [][LoginStep => users' = users /\ items' = items]_vars

C6_Witness ==
    \E r, s \in Slots :
        /\ Done(r, "login") /\ resp[r].msg = "Invalid credentials"
        /\ loc[r].user \in users
        /\ Done(s, "login") /\ HasToken(s)

\* ---------------------------------------------------- the protected routes
Protected == {"stats", "item_create", "item_list"}

\* the token was signed by this server and the request came before it expired
GoodToken(r) == req[r].token.sig = ServerSecret /\ req[r].at < req[r].token.exp

GateRejected(r, status, msg) ==
    /\ pc[r] = "done"
    /\ resp[r].status = status /\ resp[r].by = "handler" /\ resp[r].msg = msg
    /\ acc[r] = {}
    /\ loc[r].claim = NoToken

\* C2: on GET /api/dashboard/stats, POST /api/items and GET /api/items a request
\* without x-auth-token is answered 401 and one whose token does not verify is
\* answered 400, in both cases without touching the user store, the item store
\* or the media host; a request gets past the gate only with a verified token,
\* and then the decoded claim is the one attached to the request.
C2_GateShortCircuits ==
    \A r \in Slots :
        req[r].route \in Protected =>
            /\ req[r].token = NoToken =>
                  GateRejected(r, 401, "No token, authorization denied")
            /\ (req[r].token # NoToken /\ ~GoodToken(r)) =>
                  GateRejected(r, 400, "Token is not valid")
            /\ GoodToken(r) =>
                  /\ loc[r].claim = req[r].token
                  /\ \E u \in users : u.id = loc[r].claim.id
                  /\ ~(pc[r] = "done" /\ resp[r].by = "handler" /\ resp[r].status \in {400, 401})

C2_Witness ==
    \E r, s \in Slots :
        /\ Done(r, "item_create") /\ req[r].token.sig = "forged" /\ req[r].file = "jpg"
        /\ resp[r].status = 400
        /\ Done(s, "stats") /\ req[s].token = NoToken /\ resp[s].status = 401

\* the items a user has in the first n documents of the collection
OwnedUpTo(uid, n) == {i \in 1 .. n : items[i].userId = uid}
InSeq(x, sq) == \E i \in 1 .. Len(sq) : sq[i] = x

\* C3: every item GET /api/items returns for A's token has userId = A's id and
\* was created by a request carrying a token of A, whatever B's requests do in
\* between; and the listing holds every item of A that was in the store when
\* the query ran.
C3_ListingIsolation ==
    \A r \in Slots :
        (Done(r, "item_list") /\ resp[r].status = 200) =>
            /\ GoodToken(r)
            /\ \A k \in 1 .. Len(resp[r].items) :
                  /\ resp[r].items[k].userId = req[r].token.id
                  /\ uploads[resp[r].items[k].imageUrl].by.id = req[r].token.id
                  /\ InSeq(resp[r].items[k], items)
            /\ \A i \in OwnedUpTo(req[r].token.id, resp[r].mark) :
                  InSeq(items[i], resp[r].items)

C3_Witness ==
    \E r \in Slots :
        /\ Done(r, "item_list") /\ resp[r].status = 200
        /\ Len(resp[r].items) = 1
        /\ resp[r].mark = 2
        /\ \E i \in 1 .. 2 : items[i].userId # req[r].token.id

\* C7: GET /api/dashboard/stats for U returns totalItems = the number of U's
\* items when the first count ran, dirtyItems = the number of U's items flagged
\* not clean, isNewUser exactly when totalItems is 0, and dirtyItems <=
\* totalItems although items may be created between the two counts; a user
\* without items gets isNewUser, 0 and 0.
C7_DashboardStats ==
    \A r \in Slots :
        (Done(r, "stats") /\ resp[r].status = 200) =>
            LET uid == req[r].token.id IN
            /\ GoodToken(r)
            /\ resp[r].totalItems = Cardinality(OwnedUpTo(uid, resp[r].mark))
            /\ resp[r].dirtyItems =
                  Cardinality({i \in OwnedUpTo(uid, Len(items)) : ~items[i].isClean})
            /\ resp[r].isNewUser <=> (resp[r].totalItems = 0)
            /\ resp[r].dirtyItems <= resp[r].totalItems
            /\ OwnedUpTo(uid, Len(items)) = {} =>
                  /\ resp[r].isNewUser
                  /\ resp[r].totalItems = 0
                  /\ resp[r].dirtyItems = 0
            /\ resp[r].name = <<"Ann", " ", "Lee">>

C7_Witness ==
    \E r, s \in Slots :
        /\ Done(r, "stats") /\ resp[r].status = 200
        /\ resp[r].totalItems = 1 /\ ~resp[r].isNewUser
        /\ Cardinality(OwnedUpTo(req[r].token.id, Len(items))) = 2
        /\ Done(s, "stats") /\ resp[s].status = 200 /\ resp[s].isNewUser

\* no dirty item in the store, none reported
C10_Clean ==
    /\ \A i \in 1 .. Len(items) : items[i].isClean
    /\ \A r \in Slots : Done(r, "stats") => resp[r].dirtyItems = 0

\* C10: every stored item has isClean = TRUE whatever the request said, every
\* dashboard response has dirtyItems = 0, and no step lowers a user's item
\* count.
C10_AlwaysClean ==
    /\ []C10_Clean
    /\ [][\A uid \in {u.id : u \in users} :
             Len(ItemsOf(uid))' >= Len(ItemsOf(uid))]_vars

C10_Witness ==
    \E r, s \in Slots :
        /\ Done(r, "item_create") /\ resp[r].status = 200
        /\ req[r].isClean = "false"
        /\ InSeq(resp[r].items[1], items)
        /\ Done(s, "stats") /\ resp[s].status = 200 /\ resp[s].totalItems >= 1

\* ------------------------------------------------------------ store failures
\* C8: when a store operation awaited by a handler fails, the handler itself
\* answers 500: no rejection leaves a handler and no request stays unanswered.
C8_HandlersCatch ==
    \A r \in Slots :
        /\ ~escaped[r]
        /\ pc[r] # "hung"
        /\ (pc[r] = "done" /\ resp[r].status = 500 /\ req[r].route = "item_list") =>
              resp[r].by = "handler"

\* ------------------------------------------------------------ item creation
BadItemInput(r) ==
    \/ req[r].file # "jpg"
    \/ (~Falsy(req[r].seasons) /\ req[r].seasons # "[\"summer\",\"fall\"]")
    \/ req[r].warmth = "11"
    \/ req[r].name = Absent

ItemOfRequest(r, it) ==
    /\ loc[r].file # 0
    /\ it.imageUrl = loc[r].file
    /\ it.userId = req[r].token.id

\* C9: POST /api/items runs gate, upload, construction, save in that order:
\* every upload was made by a request with a verified token, every stored item
\* carries the id of its request's verified claim and the reference of that
\* request's own completed upload, and a request whose upload fails, whose
\* image part is missing, whose seasons do not parse or whose save is rejected
\* is answered 500 and leaves no item.
C9_CreateOrder ==
    /\ \A n \in 1 .. Len(uploads) :
          /\ uploads[n].by.sig = ServerSecret
          /\ \E u \in users : u.id = uploads[n].by.id
    /\ \A i \in 1 .. Len(items) :
          /\ items[i].imageUrl \in 1 .. Len(uploads)
          /\ uploads[items[i].imageUrl].by.id = items[i].userId
          /\ \A j \in 1 .. Len(items) : items[j].imageUrl = items[i].imageUrl => j = i
    /\ \A r \in Slots :
          (req[r].route = "item_create" /\ GoodToken(r)) =>
              /\ pc[r] = "item_upload" => loc[r].file = 0
              /\ pc[r] = "item_save" =>
                    /\ loc[r].file \in 1 .. Len(uploads)
                    /\ uploads[loc[r].file].by = req[r].token
                    /\ ~\E i \in 1 .. Len(items) : items[i].imageUrl = loc[r].file
              /\ pc[r] = "done" =>
                    /\ BadItemInput(r) => resp[r].status = 500
                    /\ resp[r].status = 200 =>
                          /\ ItemOfRequest(r, resp[r].items[1])
                          /\ InSeq(resp[r].items[1], items)
                          /\ uploads[loc[r].file].by = req[r].token
                    /\ resp[r].status # 200 =>
                          /\ resp[r].status = 500
                          /\ ~\E i \in 1 .. Len(items) : items[i].imageUrl = loc[r].file

C9_Witness ==
    \E r, s \in Slots :
        /\ Done(r, "item_create") /\ resp[r].status = 500
        /\ loc[r].file # 0 /\ ~BadItemInput(r)
        /\ Done(s, "item_create") /\ resp[s].status = 500 /\ resp[s].by = "express"
        /\ Len(items) = 1

\* ------------------------------------------------------------ token lifetime
IssuedByServer(tok) == tok # NoToken /\ tok.sig = ServerSecret

TokenOfRecord(tok) ==
    /\ tok.sig = ServerSecret
    /\ tok.exp = tok.iat + ExpiresIn
    /\ \E u \in users : u.id = tok.id

\* every token a registration returned belongs to the stored record of the
\* request's email, and every token in a client's hands belongs to a record
C4_Issued ==
    /\ \A r \in Slots :
          (Done(r, "register") /\ HasToken(r)) =>
              /\ TokenOfRecord(resp[r].token)
              /\ FindByEmail(req[r].email).id = resp[r].token.id
    /\ \A r \in Slots : saved[r] # NoToken => TokenOfRecord(saved[r])

GatePassed(r) == ~(pc[r] = "done" /\ resp[r].status \in {400, 401})

\* C4 as stated: a token issued by registration passes the gate on every
\* request made up to its expiration instant, that instant included, and on
\* none made after it.
C4_ValidThroughExpiry ==
    /\ C4_Issued
    /\ \A r \in Slots :
          (req[r].route = "item_list" /\ IssuedByServer(req[r].token)) =>
              (GatePassed(r) <=> req[r].at <= req[r].token.exp)

\* C4 as the code has it: the token passes the gate on every request made
\* before its expiration instant (issuance + 30 days) and on none made at or
\* after it; apart from that nothing stops an issued token from verifying.
C4_ValidBeforeExpiry ==
    /\ C4_Issued
    /\ \A r \in Slots :
          (req[r].route = "item_list" /\ IssuedByServer(req[r].token)) =>
              /\ GatePassed(r) <=> req[r].at < req[r].token.exp
              /\ GatePassed(r) => loc[r].claim = req[r].token

C4_Witness ==
    \E r, s \in Slots :
        /\ Done(r, "item_list") /\ IssuedByServer(req[r].token)
        /\ req[r].at = req[r].token.exp /\ resp[r].status = 400
        /\ Done(s, "item_list") /\ IssuedByServer(req[s].token)
        /\ req[s].at = req[s].token.exp - 1 /\ resp[s].status = 200

====
